---- MODULE Spec2Model ----
(***************************************************************************)
(* Model of the git hooks installer's transactional installation engine:   *)
(* GitHooksInstaller (git-hooks-installer.py), FileTracker                 *)
(* (security/file_tracker.py), SecureGitWrapper                            *)
(* (security/secure_git_wrapper.py) and RepositoryValidator                *)
(* (security/repository_validator.py), over an abstract git repository.    *)
(*                                                                         *)
(* A path is a sequence of one-character strings, so that pathlib's        *)
(* parsing, the backslash replacement and strip() are computed, not        *)
(* assumed.  A file's content is "absent", "U" (content that is not the    *)
(* installer's) or "I" (the content the installer writes).                 *)
(***************************************************************************)
EXTENDS Integers, Sequences, FiniteSets, TLC

VARIABLES
    repo,      \* the target repository: working tree, index, commits, branches
    tracker,   \* FileTracker: created_files, modified_files, created_directories
    inst,      \* GitHooksInstaller: position in install(), branch names, result
    hist,      \* history of the run (initial repository, what the run wrote)
    clock,     \* datetime.now() to the second
    rc,        \* an isolated call of FileTracker.validate_staging_area
    lk,        \* concurrent safe_add_tracked_files invocations on .git/installer.lock
    lg,        \* a FileTracker on its own, with its resource accounting
    va,        \* an isolated call of RepositoryValidator.validate_all
    gw         \* an isolated call of SecureGitWrapper.run or add_file

vars == <<repo, tracker, inst, hist, clock, rc, lk, lg, va, gw>>
\* the variables of a run of install(), and those of the calls studied on their own
runVars == <<repo, tracker, inst, hist, clock>>
isolated == <<rc, lk, lg, va, gw>>

(***************************************************************************)
(* Bounds of the model.                                                    *)
(***************************************************************************)
MaxClock == 2
MaxUnlinkFailures == 1
MaxSetSize == 2
NumProcs == 3
MaxCalls == 2
MaxArgs == 2

(***************************************************************************)
(* Paths.                                                                  *)
(***************************************************************************)
Absent == "absent"

HookFile == <<"h">>
ScriptsDir == <<"s">>
ScriptsSubDir == <<"s", "/", "p">>
ScriptFile == <<"s", "/", "p", "/", "a">>
DocsDir == <<"d">>
DocsGithooksDir == <<"d", "/", "g">>
DocFile == <<"d", "/", "g", "/", "a">>
SetupDir == <<"v">>
SetupFile == <<"v", "/", "a">>
WrapperSh == <<"w">>
WrapperPs1 == <<"x">>
VersionFile == <<"d", "/", "g", "/", ".", "v">>
ManifestFile == <<"d", "/", "g", "/", ".", "m">>
UserFile == <<"u">>

InstallerFiles ==
    {ScriptFile, DocFile, SetupFile, WrapperSh, WrapperPs1, VersionFile, ManifestFile}
GitPaths == InstallerFiles \cup {UserFile}
AllFiles == GitPaths \cup {HookFile}
AllDirs == {ScriptsDir, ScriptsSubDir, DocsDir, DocsGithooksDir, SetupDir}

\* ord() of the characters paths are made of (Python compares strings by code point).
CharCode(c) ==
    CASE c = " " -> 32
      [] c = "." -> 46
      [] c = "/" -> 47
      [] c = "\\" -> 92
      [] c = "a" -> 97
      [] c = "b" -> 98
      [] c = "d" -> 100
      [] c = "g" -> 103
      [] c = "h" -> 104
      [] c = "m" -> 109
      [] c = "o" -> 111
      [] c = "p" -> 112
      [] c = "s" -> 115
      [] c = "u" -> 117
      [] c = "v" -> 118
      [] c = "w" -> 119
      [] c = "x" -> 120

\* s < t as Python strings.
RECURSIVE StrLess(_, _)
StrLess(s, t) ==
    IF t = <<>> THEN FALSE
    ELSE IF s = <<>> THEN TRUE
    ELSE IF s[1] = t[1] THEN StrLess(Tail(s), Tail(t))
    ELSE CharCode(s[1]) < CharCode(t[1])

\* sorted(S) for a set of strings.
RECURSIVE SortedSeq(_)
SortedSeq(S) ==
    IF S = {} THEN <<>>
    ELSE LET m == CHOOSE x \in S : \A y \in S \ {x} : StrLess(x, y)
         IN <<m>> \o SortedSeq(S \ {m})

Reverse(s) == [i \in 1..Len(s) |-> s[Len(s) + 1 - i]]

SeqToSet(s) == {s[i] : i \in 1..Len(s)}

IsPrefix(s, t) == Len(s) <= Len(t) /\ SubSeq(t, 1, Len(s)) = s

\* p lies below directory d.
Under(d, p) == IsPrefix(d \o <<"/">>, p)

(***************************************************************************)
(* Path normalisation: str(Path(p)).replace('\\', '/') and .strip().       *)
(***************************************************************************)
\* p.split('/')
RECURSIVE SplitSlash(_)
SplitSlash(p) ==
    IF \A i \in 1..Len(p) : p[i] # "/" THEN <<p>>
    ELSE LET k == CHOOSE i \in 1..Len(p) : p[i] = "/" /\ \A j \in 1..(i - 1) : p[j] # "/"
         IN <<SubSeq(p, 1, k - 1)>> \o SplitSlash(SubSeq(p, k + 1, Len(p)))

\* '/'.join(parts)
RECURSIVE JoinSlash(_)
JoinSlash(parts) ==
    IF parts = <<>> THEN <<>>
    ELSE IF Len(parts) = 1 THEN parts[1]
    ELSE parts[1] \o <<"/">> \o JoinSlash(Tail(parts))

\* Path(p).parts without the root: empty and "." components are dropped, ".." is kept.
PathParts(p) == SelectSeq(SplitSlash(p), LAMBDA c : c # <<>> /\ c # <<".">>)

\* str(Path(p)) on a POSIX host.
PurePath(p) ==
    LET parts == PathParts(p)
        root == IF Len(p) > 0 /\ p[1] = "/" THEN <<"/">> ELSE <<>>
    IN IF parts = <<>> /\ root = <<>> THEN <<".">> ELSE root \o JoinSlash(parts)

ReplaceBackslash(p) == [i \in 1..Len(p) |-> IF p[i] = "\\" THEN "/" ELSE p[i]]

RECURSIVE LStrip(_)
LStrip(p) == IF p # <<>> /\ p[1] = " " THEN LStrip(Tail(p)) ELSE p

Strip(p) == Reverse(LStrip(Reverse(LStrip(p))))

\* FileTracker.track_*: normalized_path
TrackNormalize(p) == ReplaceBackslash(PurePath(p))

\* validate_staging_area.normalize_path
normalize_path(p) == Strip(ReplaceBackslash(PurePath(p)))

(***************************************************************************)
(* The git repository.  repo.disk is the working tree (and .git/hooks),    *)
(* repo.dirs the directories that exist, repo.index the index, repo.trees  *)
(* the tree of each commit, repo.tip the commit of each branch and         *)
(* repo.head the checked-out branch (Detached: a detached HEAD at c0).     *)
(***************************************************************************)
Detached == <<>>               \* `git branch --show-current` prints nothing
NoBranch == <<"None">>         \* Python's None
Main == <<"main">>
Dev == <<"dev">>
\* f"feat/githooks-installation-{timestamp}"
Feat(t) == <<"feat", t>>
BranchNames == {Main, Dev} \cup {Feat(t) : t \in 1..MaxClock}
NoCommit == "none"

\* `if self.branch_name`, `if self.original_branch`
Truthy(b) == b # NoBranch /\ b # Detached

HeadCommit(r) == IF r.head = Detached THEN "c0" ELSE r.tip[r.head]
HeadTree(r) == r.trees[HeadCommit(r)]

\* git diff --cached --name-only
StagedPaths(r) == {p \in GitPaths : r.index[p] # HeadTree(r)[p]}

\* git status --porcelain <p> prints something
HasChanges(r, p) == r.index[p] # HeadTree(r)[p] \/ r.disk[p] # r.index[p]

\* git status --porcelain prints nothing
StatusClean(r) == \A p \in GitPaths : ~HasChanges(r, p)

Ancestors(p) == {d \in AllDirs : Under(d, p)}

DirEmpty(r, d) ==
    /\ \A p \in AllFiles : Under(d, p) => r.disk[p] = Absent
    /\ \A e \in r.dirs : ~Under(d, e)

\* rmdir each directory of ds, in order, when it exists and is empty
RECURSIVE RemoveEmptyDirs(_, _)
RemoveEmptyDirs(r, ds) ==
    IF ds = <<>> THEN r
    ELSE LET d == ds[1]
             r1 == IF d \in r.dirs /\ DirEmpty(r, d)
                   THEN [r EXCEPT !.dirs = @ \ {d}] ELSE r
         IN RemoveEmptyDirs(r1, Tail(ds))

\* git reset [--quiet] [HEAD]: the index becomes HEAD's tree
git_reset(r) == [r EXCEPT !.index = HeadTree(r)]

\* git add -- P: the index takes the working tree's content of each path of P
git_add(r, P) ==
    [r EXCEPT !.index = [p \in GitPaths |-> IF p \in P THEN r.disk[p] ELSE @[p]]]

\* git checkout -b name
CanCreateBranch(r, name) == r.tip[name] = NoCommit
git_checkout_b(r, name) ==
    [r EXCEPT !.tip[name] = HeadCommit(r), !.head = name]

\* git checkout name --quiet: the paths that differ between the two commits are
\* rewritten; it refuses when one of them has a local change that is neither side's
\* (a missing working-tree file counts as up to date).
CheckoutDiff(r, name) == {p \in GitPaths : HeadTree(r)[p] # r.trees[r.tip[name]][p]}
CanCheckout(r, name) ==
    /\ name \in BranchNames
    /\ r.tip[name] # NoCommit
    /\ \A p \in CheckoutDiff(r, name) :
          /\ r.index[p] \in {HeadTree(r)[p], r.trees[r.tip[name]][p]}
          /\ r.disk[p] \in {Absent, r.index[p]}
git_checkout(r, name) ==
    LET to == r.trees[r.tip[name]]
        D == {p \in CheckoutDiff(r, name) : r.index[p] = HeadTree(r)[p]}
        r1 == [r EXCEPT
                 !.index = [p \in GitPaths |-> IF p \in D THEN to[p] ELSE @[p]],
                 !.disk = [p \in AllFiles |-> IF p \in D THEN to[p] ELSE @[p]],
                 !.dirs = @ \cup UNION {Ancestors(p) : p \in {q \in D : to[q] # Absent}},
                 !.head = name]
        gone == UNION {Ancestors(p) : p \in {q \in D : to[q] = Absent}}
    IN RemoveEmptyDirs(r1, Reverse(SortedSeq(gone)))

\* git branch -D name
CanDeleteBranch(r, name) ==
    name \in BranchNames /\ r.tip[name] # NoCommit /\ r.head # name
git_branch_D(r, name) == [r EXCEPT !.tip[name] = NoCommit]

\* git commit -m message: the commit c1 holds the index; the checked-out branch moves
CanCommit(r) == StagedPaths(r) # {}
git_commit(r) ==
    [r EXCEPT !.trees["c1"] = r.index,
              !.tip = IF r.head = Detached THEN @ ELSE [@ EXCEPT ![r.head] = "c1"]]

(***************************************************************************)
(* FileTracker.                                                            *)
(***************************************************************************)
NewTracker ==
    [created_files |-> <<>>, modified_files |-> <<>>, created_directories |-> <<>>]

track_file_creation(t, file_path) ==
    [t EXCEPT !.created_files = Append(@, TrackNormalize(file_path))]

track_file_modification(t, file_path) ==
    [t EXCEPT !.modified_files = Append(@, TrackNormalize(file_path))]

track_directory_creation(t, dir_path) ==
    [t EXCEPT !.created_directories = Append(@, TrackNormalize(dir_path))]

\* A get_all_tracked_files that returns the created files only.
get_all_tracked_files_created_only(t) == SeqToSet(t.created_files)
\* list(set(self.created_files + self.modified_files))
get_all_tracked_files(t) == SeqToSet(t.created_files) \cup SeqToSet(t.modified_files)

\* generate_commit_manifest(): the counts are the lengths of the lists, the path
\* lists are sorted(list), a permutation of the list that keeps repeated entries
generate_commit_manifest(t) ==
    LET sorted(s) ==
          LET rank(i) == Cardinality({j \in 1..Len(s) :
                             StrLess(s[j], s[i]) \/ (s[j] = s[i] /\ j < i)}) + 1
          IN [k \in 1..Len(s) |-> s[CHOOSE i \in 1..Len(s) : rank(i) = k]]
    IN [files_created |-> Len(t.created_files),
        files_modified |-> Len(t.modified_files),
        directories_created |-> Len(t.created_directories),
        created_files |-> sorted(t.created_files),
        modified_files |-> sorted(t.modified_files),
        created_directories |-> sorted(t.created_directories)]

\* set(normalize_path(f) for f in raw if f.strip())
NormalizedSet(raw) == {normalize_path(f) : f \in {g \in raw : Strip(g) # <<>>}}

\* actually_missing: tracked, not staged, with pending changes (warned about only)
actually_missing(staged_files_raw, tracked_files_raw, has_changes) ==
    {f \in NormalizedSet(tracked_files_raw) \ NormalizedSet(staged_files_raw) :
        f \in has_changes}

\* The variant of the archived installer: a tracked file with changes that is not
\* staged fails the validation.
validate_staging_area_missing_fails(staged_files_raw, tracked_files_raw, has_changes) ==
    /\ NormalizedSet(staged_files_raw) \ NormalizedSet(tracked_files_raw) = {}
    /\ actually_missing(staged_files_raw, tracked_files_raw, has_changes) = {}

\* validate_staging_area, once `git diff --cached --name-only` has printed
\* staged_files_raw: False iff unexpected_files is not empty.
validate_staging_area(staged_files_raw, tracked_files_raw, has_changes) ==
    LET staged_files == NormalizedSet(staged_files_raw)
        tracked_files == NormalizedSet(tracked_files_raw)
        unexpected_files == staged_files \ tracked_files
    IN unexpected_files = {}

(***************************************************************************)
(* RepositoryValidator (pre-flight).                                       *)
(***************************************************************************)
\* the target has a .git directory
validate_git_repository(r) == r.git_dir

\* git status --porcelain succeeds and prints nothing
validate_clean_working_tree(r) == r.git_dir /\ StatusClean(r)

\* `git config <key>`: exit status 1 when the key is unset; an empty line and exit
\* status 0 when it is set to the empty string
git_config(r, key) ==
    [returncode |-> IF r.config[key] = "unset" THEN 1 ELSE 0,
     stdout |-> IF r.config[key] = "set" THEN "value" ELSE ""]

\* False iff one of the two commands exits non-zero (an empty value adds an error
\* message and still returns True)
validate_git_config(r) ==
    /\ git_config(r, "name").returncode = 0
    /\ git_config(r, "email").returncode = 0

\* git branch --list <branch_pattern> succeeds and prints nothing
validate_no_conflicting_branches(r, branch_pattern) ==
    r.git_dir /\ r.tip[branch_pattern] = NoCommit

validate_all(r, branch_pattern) ==
    /\ validate_git_repository(r)
    /\ validate_clean_working_tree(r)
    /\ validate_git_config(r)
    /\ validate_no_conflicting_branches(r, branch_pattern)

\* The entries the four checks append to self.validation_errors, in order: each is a
\* message, with the path it names if any.  timeout = "config": a `git config`
\* command timed out (caught by validate_git_config's `except Exception`);
\* timeout = "status": `git status` timed out, the exception leaves validate_all
\* after validate_git_repository.
validation_errors(r, branch_pattern, timeout) ==
    LET E(text) == <<[text |-> text, arg |-> <<>>]>>
        changed == SortedSeq({p \in GitPaths : HasChanges(r, p)})
        status_line(p) ==
            [text |-> IF HeadTree(r)[p] = Absent /\ r.index[p] = Absent THEN "  Untracked"
                      ELSE IF r.index[p] = HeadTree(r)[p]
                           THEN (IF r.disk[p] = Absent THEN "  D" ELSE "  M")
                      ELSE IF HeadTree(r)[p] = Absent THEN "  Added"
                      ELSE IF r.index[p] = Absent THEN "  Deleted"
                      ELSE "  Modified",
             arg |-> p]
        repository == IF validate_git_repository(r) THEN <<>>
                      ELSE E("Not a git repository")
        tree == IF ~r.git_dir THEN E("Failed to check repository status")
                ELSE IF changed = <<>> THEN <<>>
                ELSE E("Repository has uncommitted changes:")
                     \o [i \in 1..Len(changed) |-> status_line(changed[i])]
                     \o E("Please commit or stash changes before installation.")
        name == git_config(r, "name")
        email == git_config(r, "email")
        config == IF timeout = "config" THEN E("Failed to check git configuration")
                  ELSE (IF name.returncode # 0 \/ name.stdout = ""
                        THEN E("Git user.name not configured") ELSE <<>>)
                       \o (IF email.returncode # 0 \/ email.stdout = ""
                           THEN E("Git user.email not configured") ELSE <<>>)
                       \o (IF name.returncode # 0 \/ email.returncode # 0
                           THEN E("Configure git with:")
                                \o E("  git config user.name \"Your Name\"")
                                \o E("  git config user.email \"your.email@example.com\"")
                           ELSE <<>>)
        branches == IF ~r.git_dir THEN E("Failed to check existing branches")
                    ELSE IF r.tip[branch_pattern] # NoCommit
                         THEN E("Conflicting branches exist:") \o E("  <branch_pattern>")
                              \o E("Please delete or rename existing branches.")
                    ELSE <<>>
    IN IF timeout = "status" THEN repository
       ELSE repository \o tree \o config \o branches

\* A validate_all that does not clear the errors of the call before.
validate_all_errors_kept(validation_errors_before, r, branch_pattern, timeout) ==
    validation_errors_before \o validation_errors(r, branch_pattern, timeout)
\* validate_all: self.validation_errors.clear(), then the checks append
validate_all_errors(validation_errors_before, r, branch_pattern, timeout) ==
    LET cleared == <<>> IN cleared \o validation_errors(r, branch_pattern, timeout)

(***************************************************************************)
(* The states of a run of GitHooksInstaller.install().                     *)
(***************************************************************************)
FreshTree == [p \in GitPaths |-> Absent]
\* The tree of a repository into which an earlier installation was merged: the
\* installed files are there, the version marker and the manifest with older content.
PriorTree ==
    [p \in GitPaths |->
        IF p = UserFile THEN Absent
        ELSE IF p \in {VersionFile, ManifestFile} THEN "U" ELSE "I"]
InitialTrees ==
    {FreshTree, [FreshTree EXCEPT ![ScriptFile] = "U"], PriorTree}

DirsOf(disk) == UNION {Ancestors(p) : p \in {q \in AllFiles : disk[q] # Absent}}

\* the value of a variable that a specification does not use
Unused == [phase |-> "idle"]
\* no run of install() is under way
RunIdle ==
    repo = Unused /\ tracker = Unused /\ inst = Unused /\ hist = Unused /\ clock = 1

\* user.name / user.email: "set", "empty" (set to the empty string) or "unset"
Configured == [name |-> "set", email |-> "set"]
NameUnset == [name |-> "unset", email |-> "set"]

\* A repository before the run: HEAD's tree is tree0, the user's file is untracked or
\* staged when dirty says so, the branches dev, main and one feature branch exist.
Repo0(tree0, dirty, mainExists, featExists, head0, config, git_dir) ==
    LET disk0 == [p \in AllFiles |->
                    IF p = HookFile THEN Absent
                    ELSE IF p = UserFile /\ dirty # "clean" THEN "U"
                    ELSE tree0[p]]
    IN [disk |-> disk0,
        dirs |-> DirsOf(disk0),
        index |-> [p \in GitPaths |->
                     IF p = UserFile /\ dirty = "staged" THEN "U" ELSE tree0[p]],
        trees |-> [c \in {"c0", "c1"} |-> tree0],
        tip |-> [b \in BranchNames |->
                   IF b = Dev \/ (b = Main /\ mainExists)
                      \/ (featExists > 0 /\ b = Feat(featExists))
                   THEN "c0" ELSE NoCommit],
        head |-> head0,
        config |-> config,
        git_dir |-> git_dir]

InitRepo ==
    \E tree0 \in InitialTrees,
       dirty \in {"clean", "untracked", "staged"},
       mainExists \in BOOLEAN, featExists \in 0..MaxClock,
       config \in {Configured, NameUnset} :
      \E head0 \in {Dev, Detached} \cup (IF mainExists THEN {Main} ELSE {}) :
        repo = Repo0(tree0, dirty, mainExists, featExists, head0, config, TRUE)

Init ==
    /\ InitRepo
    /\ tracker = NewTracker
    /\ inst = [pc |-> "start", branch_name |-> NoBranch, original_branch |-> NoBranch,
               result |-> "none"]
    /\ hist = [repo0 |-> repo, preflight |-> "none", branched |-> FALSE,
               stepsOk |-> FALSE, validated |-> FALSE, committed |-> FALSE,
               commitHead |-> NoBranch, commitPaths |-> {}, push |-> "none",
               rolledBack |-> FALSE, written |-> {}, interfered |-> FALSE,
               longMessage |-> FALSE, stage |-> "none",
               failedStep |-> "none", potential_branch |-> NoBranch,
               \* what the manifest file holds: nothing before it is written
               manifest |-> generate_commit_manifest(NewTracker)]
    /\ clock = 1
    /\ rc = Unused /\ lk = Unused /\ lg = Unused /\ va = Unused /\ gw = Unused

\* install(): where the run goes after a phase returned `ok`
Goto(i, ok, next, failed) ==
    [i EXCEPT !.pc = IF ok THEN next ELSE failed,
              !.result = IF ~ok /\ failed = "done" THEN "failure" ELSE @]

\* install() lines 972-973: `if not self.pre_flight_checks(): return False`
install_after_preflight(passed) == IF passed THEN "branch" ELSE "done"

\* pre_flight_checks(): validate_all either returns, or a subprocess timeout
\* (caught nowhere below install()) escapes into install()'s `except Exception`.
pre_flight_checks ==
    /\ inst.pc = "start"
    /\ \E raised \in BOOLEAN :
         LET potential_branch == Feat(clock)
             passed == validate_all(repo, potential_branch)
         IN /\ inst' = IF raised THEN Goto(inst, FALSE, "", "cleanup")
                       ELSE Goto(inst, passed, "branch", install_after_preflight(passed))
            /\ hist' = [hist EXCEPT !.preflight = IF raised THEN "raised"
                                                  ELSE IF passed THEN "passed" ELSE "failed",
                                    !.potential_branch = potential_branch]
    /\ UNCHANGED <<repo, tracker, clock, isolated>>

\* A second passes between pre_flight_checks and create_safe_feature_branch.
Tick ==
    /\ inst.pc = "branch"
    /\ clock < MaxClock
    /\ clock' = clock + 1
    /\ UNCHANGED <<repo, tracker, inst, hist, isolated>>

\* get_current_branch(): "main" when the branch cannot be read
get_current_branch(r, detect_ok) == IF detect_ok THEN r.head ELSE Main

\* A `git branch <name>` in place of `git checkout -b <name>`.
create_branch_without_checkout(r, branch_name) ==
    [r EXCEPT !.tip[branch_name] = HeadCommit(r)]
\* SecureGitWrapper.create_branch
create_branch(r, branch_name) == git_checkout_b(r, branch_name)

\* An install() that answers a failed create_safe_feature_branch with
\* cleanup_on_failure.
create_safe_feature_branch_then_cleanup ==
    /\ inst.pc = "branch"
    /\ \E detect_ok \in BOOLEAN, git_ok \in BOOLEAN :
         LET name == Feat(clock)
             ok == git_ok /\ CanCreateBranch(repo, name)
         IN /\ repo' = IF ok THEN create_branch(repo, name) ELSE repo
            /\ inst' = [Goto(inst, ok, "hooks", "cleanup") EXCEPT
                          !.original_branch = get_current_branch(repo, detect_ok),
                          !.branch_name = name]
            /\ hist' = [hist EXCEPT !.branched = ok]
    /\ UNCHANGED <<tracker, clock, isolated>>
\* create_safe_feature_branch(), and install() lines 976-977: `return False` without
\* cleanup when it returns False
create_safe_feature_branch ==
    /\ inst.pc = "branch"
    /\ \E detect_ok \in BOOLEAN, git_ok \in BOOLEAN :
         LET name == Feat(clock)
             ok == git_ok /\ CanCreateBranch(repo, name)
         IN /\ repo' = IF ok THEN create_branch(repo, name) ELSE repo
            /\ inst' = [Goto(inst, ok, "hooks", "done") EXCEPT
                          !.original_branch = get_current_branch(repo, detect_ok),
                          !.branch_name = name]
            /\ hist' = [hist EXCEPT !.branched = ok]
    /\ UNCHANGED <<tracker, clock, isolated>>

(***************************************************************************)
(* The install steps.  A step copies its files one by one and tracks each  *)
(* after copying it; any exception ends the step with False.               *)
(***************************************************************************)
\* shutil.copy2 / open(..., 'w'): the file has the installer's content, its
\* parent directories exist (mkdir(parents=True, exist_ok=True))
WriteFile(r, p) == [r EXCEPT !.disk[p] = "I", !.dirs = @ \cup Ancestors(p)]

\* `if not d.exists(): d.mkdir(...); track_directory_creation(d)` for each d of ds
RECURSIVE MkdirTracked(_, _)
MkdirTracked(s, ds) ==
    IF ds = <<>> THEN s
    ELSE LET d == ds[1]
             s1 == IF d \in s.repo.dirs THEN s
                   ELSE [repo |-> [s.repo EXCEPT !.dirs = @ \cup {d} \cup Ancestors(d)],
                         tracker |-> track_directory_creation(s.tracker, d)]
         IN MkdirTracked(s1, Tail(ds))

\* the first n files of fs copied and tracked
RECURSIVE CopyAndTrack(_, _, _)
CopyAndTrack(s, fs, n) ==
    IF n = 0 THEN s
    ELSE CopyAndTrack([repo |-> WriteFile(s.repo, fs[1]),
                       tracker |-> track_file_creation(s.tracker, fs[1])],
                      Tail(fs), n - 1)

\* How a step over the files fs may end: "ok"; "start": an exception before anything
\* was written; "copy": n files done, copying the next raised; "track": n files done,
\* the next was written and tracking it raised (a resource limit of the FileTracker).
StepOutcomes(fs) ==
    {[n |-> Len(fs), kind |-> "ok"], [n |-> 0, kind |-> "start"]}
    \cup {[n |-> n, kind |-> k] : n \in 0..(Len(fs) - 1), k \in {"copy", "track"}}

StepResult(r, t, ds, fs, o) ==
    LET s0 == [repo |-> r, tracker |-> t]
        s1 == IF o.kind = "start" THEN s0 ELSE MkdirTracked(s0, ds)
        s2 == CopyAndTrack(s1, fs, o.n)
    IN IF o.kind = "track" THEN [s2 EXCEPT !.repo = WriteFile(@, fs[o.n + 1])] ELSE s2

StepWritten(fs, o) ==
    {fs[i] : i \in 1..o.n} \cup (IF o.kind = "track" THEN {fs[o.n + 1]} ELSE {})

\* An install() that goes on to the next step when a step returned False.
Step_going_on(at, next, ds, fs) ==
    /\ inst.pc = at
    /\ \E o \in StepOutcomes(fs) :
         LET s == StepResult(repo, tracker, ds, fs, o)
         IN /\ repo' = s.repo
            /\ tracker' = s.tracker
            /\ inst' = [inst EXCEPT !.pc = next]
            /\ hist' = [hist EXCEPT !.written = @ \cup StepWritten(fs, o),
                                    !.stepsOk = (o.kind = "ok" /\ next = "stage"),
                                    !.failedStep = IF o.kind = "ok" THEN @ ELSE at]
    /\ UNCHANGED <<clock, isolated>>
\* install(): `if not step_func(): cleanup_on_failure(); return False`
Step(at, next, ds, fs) ==
    /\ inst.pc = at
    /\ \E o \in StepOutcomes(fs) :
         LET s == StepResult(repo, tracker, ds, fs, o)
         IN /\ repo' = s.repo
            /\ tracker' = s.tracker
            /\ inst' = Goto(inst, o.kind = "ok", next, "cleanup")
            /\ hist' = [hist EXCEPT !.written = @ \cup StepWritten(fs, o),
                                    !.stepsOk = (o.kind = "ok" /\ next = "stage"),
                                    !.failedStep = IF o.kind = "ok" THEN @ ELSE at]
    /\ UNCHANGED <<clock, isolated>>

\* install_git_hooks(): the hook is copied into .git/hooks and made executable; it
\* is not tracked.  "copy": copy2 raised; "chmod": chmod raised after the copy.
install_git_hooks ==
    /\ inst.pc = "hooks"
    /\ \E o \in {"ok", "copy", "chmod"} :
         /\ repo' = IF o = "copy" THEN repo ELSE [repo EXCEPT !.disk[HookFile] = "I"]
         /\ inst' = Goto(inst, o = "ok", "scripts", "cleanup")
         /\ hist' = [hist EXCEPT !.written = @ \cup (IF o = "copy" THEN {} ELSE {HookFile}),
                                 !.failedStep = IF o = "ok" THEN @ ELSE "hooks"]
    /\ UNCHANGED <<tracker, clock, isolated>>

install_scripts_directory == Step("scripts", "docs", <<ScriptsDir>>, <<ScriptFile>>)

install_documentation ==
    Step("docs", "setup", <<DocsDir, DocsGithooksDir>>, <<DocFile>>)

install_developer_setup == Step("setup", "wrappers", <<SetupDir>>, <<SetupFile>>)

create_shell_wrappers == Step("wrappers", "version", <<>>, <<WrapperSh, WrapperPs1>>)

save_version_info == Step("version", "stage", <<>>, <<VersionFile>>)

(***************************************************************************)
(* commit_tracked_changes(), in the four parts between which another actor *)
(* can touch the index.                                                    *)
(***************************************************************************)
\* A safe_add_tracked_files that resets and adds although the lock is held.
safe_add_tracked_files_despite_lock(r, t, o) ==
    LET tracked_files == get_all_tracked_files(t)
    IN IF tracked_files = {} \/ o = "reset" THEN r
       ELSE IF o = "add" THEN git_reset(r)
       ELSE git_add(git_reset(r), {p \in tracked_files \cap GitPaths : r.disk[p] # Absent})
\* safe_add_tracked_files(skip_validation=True) under .git/installer.lock.
\* "locked": flock raised BlockingIOError; "reset": git reset failed; "add": git add
\* failed after the reset.
safe_add_tracked_files(r, t, o) ==
    LET tracked_files == get_all_tracked_files(t)
        valid_files == {p \in tracked_files \cap GitPaths : r.disk[p] # Absent}
    IN IF tracked_files = {} \/ o \in {"locked", "reset"} THEN r
       ELSE IF o = "add" THEN git_reset(r)
       ELSE git_add(git_reset(r), valid_files)

stage_tracked_files ==
    /\ inst.pc = "stage"
    /\ \E o \in {"ok", "locked", "reset", "add"} :
         /\ repo' = safe_add_tracked_files(repo, tracker, o)
         /\ inst' = Goto(inst, o = "ok", "manifest", "cleanup")
         /\ hist' = [hist EXCEPT !.stage = o]
    /\ UNCHANGED <<tracker, clock, isolated>>

\* An add_file that verifies every add, whether or not the path had changes.
add_file_raises_unless_staged(r, p) == p \notin StagedPaths(git_add(r, {p}))
\* SecureGitWrapper.add_file: raises when the path had changes and is not in the
\* staged-name list after the add
add_file_raises(r, p) == HasChanges(r, p) /\ p \notin StagedPaths(git_add(r, {p}))
add_file(r, p) == git_add(r, {p})

\* A commit phase that writes and tracks the manifest and does not stage it.
stage_manifest_skipped(r, p) == r
\* commit_tracked_changes() line 430: self.git.add_file(manifest)
stage_manifest(r, p) == add_file(r, p)

\* A save_manifest() that writes the manifest and does not track it.
save_and_stage_manifest_untracked ==
    /\ inst.pc = "manifest"
    /\ \E o \in {"ok", "write", "track", "add"} :
         LET r1 == IF o = "write" THEN repo ELSE WriteFile(repo, ManifestFile)
             ok == o = "ok" /\ ~add_file_raises(r1, ManifestFile)
         IN /\ repo' = IF ok THEN stage_manifest(r1, ManifestFile) ELSE r1
            /\ inst' = Goto(inst, ok, "validate", "cleanup")
            /\ hist' = [hist EXCEPT
                          !.written = @ \cup (IF o = "write" THEN {} ELSE {ManifestFile})]
    /\ UNCHANGED <<tracker, clock, isolated>>
\* save_manifest() and the add of the manifest.  "write": writing raised; "track":
\* track_file_creation raised after the write; "add": the add command failed.  The
\* file holds generate_commit_manifest() as it is before the manifest is tracked.
save_and_stage_manifest ==
    /\ inst.pc = "manifest"
    /\ \E o \in {"ok", "write", "track", "add"} :
         LET r1 == IF o = "write" THEN repo ELSE WriteFile(repo, ManifestFile)
             t1 == IF o \in {"write", "track"} THEN tracker
                   ELSE track_file_creation(tracker, ManifestFile)
             ok == o = "ok" /\ ~add_file_raises(r1, ManifestFile)
         IN /\ repo' = IF ok THEN stage_manifest(r1, ManifestFile) ELSE r1
            /\ tracker' = t1
            /\ inst' = Goto(inst, ok, "validate", "cleanup")
            /\ hist' = [hist EXCEPT
                          !.written = @ \cup (IF o = "write" THEN {} ELSE {ManifestFile}),
                          !.manifest = IF o = "write" THEN @
                                       ELSE generate_commit_manifest(tracker)]
    /\ UNCHANGED <<clock, isolated>>

\* A commit_tracked_changes that commits whatever validate_staging_area returned.
after_final_validation_unchecked(valid) == "commit"
\* commit_tracked_changes() lines 434-436: `if not validate_staging_area(debug=True):
\* return False`, which install() answers with cleanup_on_failure
after_final_validation(valid) == IF valid THEN "commit" ELSE "cleanup"

\* validate_staging_area(debug=True): "error": git diff exited non-zero (False);
\* "timeout": it timed out (the exception escapes to install()).
validate_staged ==
    /\ inst.pc = "validate"
    /\ \E diff \in {"ok", "error", "timeout"} :
         LET ok == /\ diff = "ok"
                   /\ validate_staging_area(StagedPaths(repo),
                                            get_all_tracked_files(tracker),
                                            {p \in GitPaths : HasChanges(repo, p)})
         IN /\ inst' = [inst EXCEPT !.pc = after_final_validation(ok)]
            /\ hist' = [hist EXCEPT !.validated = ok]
    /\ UNCHANGED <<repo, tracker, clock, isolated>>

\* SecureGitWrapper.commit: `if len(message) > 5000`
CommitMessageLimit == 5000

\* len(create_detailed_commit_message()): the message has one line for each created
\* and each modified file, so its length grows with the number and the length of the
\* names the model's paths stand for; it is never empty.
MessageLengths == {CommitMessageLimit, CommitMessageLimit + 1}

\* A commit() that passes any message on to git.
commit_refuses_nothing(message_len) == FALSE
\* SecureGitWrapper.commit: SecureGitError before `git commit` is run
commit_refuses(message_len) == message_len = 0 \/ message_len > CommitMessageLimit

\* create_detailed_commit_message() and SecureGitWrapper.commit: a refused message
\* raises SecureGitError, which commit_tracked_changes does not catch and install()
\* answers with cleanup_on_failure; the commit command fails when nothing is staged,
\* and may fail for other reasons (git_ok = FALSE).
commit_changes ==
    /\ inst.pc = "commit"
    /\ \E git_ok \in BOOLEAN, message_len \in MessageLengths :
         LET ok == ~commit_refuses(message_len) /\ git_ok /\ CanCommit(repo)
         IN /\ repo' = IF ok THEN git_commit(repo) ELSE repo
            /\ inst' = Goto(inst, ok, "push", "cleanup")
            /\ hist' = IF ok THEN [hist EXCEPT !.committed = TRUE,
                                               !.commitHead = repo.head,
                                               !.commitPaths = StagedPaths(repo),
                                               !.longMessage = message_len > CommitMessageLimit]
                       ELSE [hist EXCEPT !.longMessage = message_len > CommitMessageLimit]
    /\ UNCHANGED <<tracker, clock, isolated>>

\* push_feature_branch(): never fatal.  "failed": git push exited non-zero;
\* "timeout": git remote or git push exceeded the wrapper's timeout (SecureGitError).
push_feature_branch ==
    /\ inst.pc = "push"
    /\ \E o \in {"no_remote", "pushed", "failed", "timeout"} :
         hist' = [hist EXCEPT !.push = o]
    /\ inst' = [inst EXCEPT !.pc = "restore"]
    /\ UNCHANGED <<repo, tracker, clock, isolated>>

\* install() phase 7: checkout of the original branch, a failure only logged
restore_original_branch ==
    /\ inst.pc = "restore"
    /\ \E git_ok \in BOOLEAN :
         repo' = IF Truthy(inst.original_branch) /\ git_ok
                    /\ CanCheckout(repo, inst.original_branch)
                 THEN git_checkout(repo, inst.original_branch) ELSE repo
    /\ inst' = [inst EXCEPT !.pc = "done", !.result = "success"]
    /\ UNCHANGED <<tracker, hist, clock, isolated>>

(***************************************************************************)
(* cleanup_on_failure(): every action is attempted, a failing one is       *)
(* logged and skipped.                                                     *)
(***************************************************************************)
\* `if full_path.exists(): full_path.unlink()` for each tracked file
UnlinkTracked(r, tracked_files, unlink_fails) ==
    [r EXCEPT !.disk = [p \in AllFiles |->
                          IF p \in tracked_files /\ p \notin unlink_fails
                          THEN Absent ELSE @[p]]]

\* A cleanup without the inner try blocks: the first failing action ends it (the
\* outer `except Exception` logs "Cleanup failed").
cleanup_on_failure_aborting(r, t, i, reset_ok, unlink_fails, checkout_ok, delete_ok) ==
    LET r1 == git_reset(r)
        r3 == RemoveEmptyDirs(UnlinkTracked(r1, get_all_tracked_files(t), {}),
                              Reverse(SortedSeq(SeqToSet(t.created_directories))))
        can4 == CanCheckout(r3, i.original_branch)
        r4 == IF can4 THEN git_checkout(r3, i.original_branch) ELSE r3
        r5 == IF CanDeleteBranch(r4, i.branch_name)
              THEN git_branch_D(r4, i.branch_name) ELSE r4
    IN IF ~reset_ok THEN r
       ELSE IF unlink_fails # {} THEN r1
       ELSE IF ~(Truthy(i.branch_name) /\ Truthy(i.original_branch)) THEN r3
       ELSE IF ~(checkout_ok /\ can4) THEN r3
       ELSE IF ~delete_ok THEN r4
       ELSE r5
\* A cleanup that visits the tracked directories in sorted order, parents first.
cleanup_on_failure_top_down(r, t, i, reset_ok, unlink_fails, checkout_ok, delete_ok) ==
    LET r1 == IF reset_ok THEN git_reset(r) ELSE r
        r2 == UnlinkTracked(r1, get_all_tracked_files(t), unlink_fails)
        r3 == RemoveEmptyDirs(r2, SortedSeq(SeqToSet(t.created_directories)))
        r4 == IF checkout_ok /\ CanCheckout(r3, i.original_branch)
              THEN git_checkout(r3, i.original_branch) ELSE r3
        r5 == IF delete_ok /\ CanDeleteBranch(r4, i.branch_name)
              THEN git_branch_D(r4, i.branch_name) ELSE r4
    IN IF Truthy(i.branch_name) /\ Truthy(i.original_branch) THEN r5 ELSE r3
cleanup_on_failure(r, t, i, reset_ok, unlink_fails, checkout_ok, delete_ok) ==
    LET r1 == IF reset_ok THEN git_reset(r) ELSE r
        r2 == UnlinkTracked(r1, get_all_tracked_files(t), unlink_fails)
        r3 == RemoveEmptyDirs(r2, Reverse(SortedSeq(SeqToSet(t.created_directories))))
        r4 == IF checkout_ok /\ CanCheckout(r3, i.original_branch)
              THEN git_checkout(r3, i.original_branch) ELSE r3
        r5 == IF delete_ok /\ CanDeleteBranch(r4, i.branch_name)
              THEN git_branch_D(r4, i.branch_name) ELSE r4
    IN IF Truthy(i.branch_name) /\ Truthy(i.original_branch) THEN r5 ELSE r3

rollback ==
    /\ inst.pc = "cleanup"
    /\ \E reset_ok \in BOOLEAN, checkout_ok \in BOOLEAN, delete_ok \in BOOLEAN,
          unlink_fails \in {F \in SUBSET get_all_tracked_files(tracker) :
                              Cardinality(F) <= MaxUnlinkFailures} :
         repo' = cleanup_on_failure(repo, tracker, inst, reset_ok, unlink_fails,
                                    checkout_ok, delete_ok)
    /\ inst' = [inst EXCEPT !.pc = "done", !.result = "failure"]
    /\ hist' = [hist EXCEPT !.rolledBack = TRUE]
    /\ UNCHANGED <<tracker, clock, isolated>>

\* Another actor in the same repository creates a file of its own and stages it.
ExternalStage ==
    /\ inst.pc \notin {"start", "done"}
    /\ repo.index[UserFile] # "U"
    /\ repo' = [repo EXCEPT !.disk[UserFile] = "U", !.index[UserFile] = "U"]
    /\ hist' = [hist EXCEPT !.interfered = TRUE]
    /\ UNCHANGED <<tracker, inst, clock, isolated>>

Next ==
    \/ pre_flight_checks
    \/ Tick
    \/ create_safe_feature_branch
    \/ install_git_hooks
    \/ install_scripts_directory
    \/ install_documentation
    \/ install_developer_setup
    \/ create_shell_wrappers
    \/ save_version_info
    \/ stage_tracked_files
    \/ save_and_stage_manifest
    \/ validate_staged
    \/ commit_changes
    \/ push_feature_branch
    \/ restore_original_branch
    \/ rollback
    \/ ExternalStage

Spec == Init /\ [][Next]_vars

(***************************************************************************)
(* FileTracker.validate_staging_area on its own: a ledger built by         *)
(* track_file_creation / track_file_modification from raw paths, and the   *)
(* lines `git diff --cached --name-only` printed.                          *)
(***************************************************************************)
\* a, ./a, a/b, a//b, a\b, " a", b and a blank line
RawPaths ==
    {<<"a">>, <<".", "/", "a">>, <<"a", "/", "b">>, <<"a", "/", "/", "b">>,
     <<"a", "\\", "b">>, <<" ", "a">>, <<"b">>, <<" ">>}

SmallSubsets(S) == {T \in SUBSET S : Cardinality(T) <= MaxSetSize}

RECURSIVE TrackAll(_, _)
TrackAll(t, ps) ==
    IF ps = <<>> THEN t ELSE TrackAll(track_file_creation(t, ps[1]), Tail(ps))

InitReconcile ==
    /\ \E created \in SmallSubsets(RawPaths), modified \in {{}, {<<"b">>}},
          staged \in SmallSubsets(RawPaths), diff \in {"ok", "error", "timeout"},
          pending \in BOOLEAN :
         LET t0 == TrackAll(NewTracker, SortedSeq(created))
             t1 == IF modified = {} THEN t0 ELSE track_file_modification(t0, <<"b">>)
         IN rc = [phase |-> "ready", tracker |-> t1, staged_raw |-> staged,
                  diff |-> diff,
                  has_changes |-> IF pending
                                  THEN NormalizedSet(get_all_tracked_files(t1)) ELSE {},
                  result |-> FALSE]
    /\ RunIdle
    /\ lk = Unused /\ lg = Unused /\ va = Unused /\ gw = Unused

\* validate_staging_area(): False when git diff exits non-zero (CalledProcessError,
\* the one exception it catches); when git diff exceeds its timeout of 10 s,
\* subprocess.TimeoutExpired leaves the method and nothing is returned.
rc_validate_staging_area ==
    /\ rc.phase = "ready"
    /\ rc' = IF rc.diff = "timeout" THEN [rc EXCEPT !.phase = "raised"]
             ELSE [rc EXCEPT
                     !.phase = "done",
                     !.result = /\ rc.diff = "ok"
                                /\ validate_staging_area(rc.staged_raw,
                                                         get_all_tracked_files(rc.tracker),
                                                         rc.has_changes)]
    /\ UNCHANGED <<runVars, lk, lg, va, gw>>

NextReconcile == rc_validate_staging_area

SpecReconcile == InitReconcile /\ [][NextReconcile]_vars

(***************************************************************************)
(* The lock of safe_add_tracked_files: NumProcs installer invocations in   *)
(* one repository.  lk.path is the inode .git/installer.lock names (0:     *)
(* the file does not exist), lk.holder[i] the invocation whose open file   *)
(* holds the flock on inode i (0: nobody), lk.added[p] that invocation p   *)
(* has reset the staging area and added its files.                         *)
(***************************************************************************)
Procs == 1..NumProcs
Inodes == 1..NumProcs

InitLock ==
    /\ lk = [path |-> 0,
             holder |-> [i \in Inodes |-> 0],
             created |-> 0,
             pc |-> [p \in Procs |-> "open"],
             fd |-> [p \in Procs |-> 0],
             added |-> [p \in Procs |-> FALSE]]
    /\ RunIdle
    /\ rc = Unused /\ lg = Unused /\ va = Unused /\ gw = Unused

\* lock_file = open(lock_file_path, 'w'): the file is created when it is missing
lock_open(p) ==
    /\ lk.pc[p] = "open"
    /\ lk' = IF lk.path = 0
             THEN [lk EXCEPT !.path = lk.created + 1, !.created = @ + 1,
                             !.fd[p] = lk.created + 1, !.pc[p] = "flock"]
             ELSE [lk EXCEPT !.fd[p] = lk.path, !.pc[p] = "flock"]
    /\ UNCHANGED <<runVars, rc, lg, va, gw>>

\* fcntl.flock(fd, LOCK_EX | LOCK_NB): BlockingIOError when another open file holds
\* the lock on the same inode; the `finally` block runs either way
lock_flock(p) ==
    /\ lk.pc[p] = "flock"
    /\ lk' = IF lk.holder[lk.fd[p]] = 0
             THEN [lk EXCEPT !.holder[lk.fd[p]] = p, !.pc[p] = "locked"]
             ELSE [lk EXCEPT !.pc[p] = "finally"]
    /\ UNCHANGED <<runVars, rc, lg, va, gw>>

\* git reset --quiet and the adds, inside the lock
lock_stage(p) ==
    /\ lk.pc[p] = "locked"
    /\ lk' = [lk EXCEPT !.pc[p] = "staged", !.added[p] = TRUE]
    /\ UNCHANGED <<runVars, rc, lg, va, gw>>

\* finally: fcntl.flock(fd, LOCK_UN); lock_file.close()
lock_release(p) ==
    /\ lk.pc[p] \in {"staged", "finally"}
    /\ lk' = [lk EXCEPT
                !.holder[lk.fd[p]] = IF @ = p THEN 0 ELSE @,
                !.pc[p] = "unlink"]
    /\ UNCHANGED <<runVars, rc, lg, va, gw>>

\* finally: lock_file_path.unlink(missing_ok=True)
lock_unlink(p) ==
    /\ lk.pc[p] = "unlink"
    /\ lk' = [lk EXCEPT !.path = 0, !.pc[p] = "done"]
    /\ UNCHANGED <<runVars, rc, lg, va, gw>>

\* commit_tracked_changes() after safe_add_tracked_files has returned True: the
\* manifest is added, the staging area validated and the commit made
lock_commit(p) ==
    /\ lk.pc[p] = "done"
    /\ lk.added[p]
    /\ lk' = [lk EXCEPT !.pc[p] = "committed"]
    /\ UNCHANGED <<runVars, rc, lg, va, gw>>

NextLock ==
    \E p \in Procs :
        \/ lock_open(p)
        \/ lock_flock(p)
        \/ lock_stage(p)
        \/ lock_release(p)
        \/ lock_unlink(p)
        \/ lock_commit(p)

SpecLock == InitLock /\ [][NextLock]_vars

\* the invocations inside the locked section
InLockedSection == {p \in Procs : lk.pc[p] \in {"locked", "staged"}}

(***************************************************************************)
(* The FileTracker on its own: any sequence of track_* calls, accepted or  *)
(* rejected, on a ledger that is empty or one entry short of a limit.      *)
(* lg.total_size_tracked is the tracker's field, lg.largest the largest    *)
(* size it accepted for one file.  The ledger at the start was built by    *)
(* tracking the lg.before files f001, f002, ...; lg.passed holds the paths *)
(* given to track_file_creation and track_file_modification since then,    *)
(* lg.accepted those of the calls that returned.                           *)
(***************************************************************************)
MAX_FILES == 1000
MAX_DIRECTORIES == 100
MAX_FILE_SIZE == 10 * 1024 * 1024
MAX_TOTAL_SIZE == 100 * 1024 * 1024

\* the repository root the tracker was built with
RepoRoot == <<"/", "r">>

Digits == <<"0", "1", "2", "3", "4", "5", "6", "7", "8", "9">>
\* f000, f001, ...: the i-th of the files an installation copies
NumberedPath(i) ==
    <<"f", Digits[((i \div 100) % 10) + 1], Digits[((i \div 10) % 10) + 1],
      Digits[(i % 10) + 1]>>

\* a, ./a, b, ../o and the absolute path /o
LedgerPaths ==
    {<<"a">>, <<".", "/", "a">>, <<"b">>, <<".", ".", "/", "o">>, <<"/", "o">>}
FileSizes == {0, MAX_FILE_SIZE, MAX_FILE_SIZE + 1}

\* a path with a '..' component, or an absolute path that is not below the root
LeavesRoot(p) ==
    \/ <<".", ".">> \in SeqToSet(PathParts(p))
    \/ (p # <<>> /\ p[1] = "/" /\ ~Under(RepoRoot, p))

\* Checks that leave out the size of the one file.
track_file_check_total_only(n, total_size_tracked, exists, file_size) ==
    IF n >= MAX_FILES THEN "Maximum file limit exceeded"
    ELSE IF exists /\ total_size_tracked + file_size > MAX_TOTAL_SIZE
         THEN "Total size limit exceeded"
    ELSE "ok"
\* the checks of track_file_creation / track_file_modification before the append:
\* the ValueError raised, or "ok".  n is the length of the list appended to.
track_file_check(n, total_size_tracked, exists, file_size) ==
    IF n >= MAX_FILES THEN "Maximum file limit exceeded"
    ELSE IF exists /\ file_size > MAX_FILE_SIZE THEN "File too large"
    ELSE IF exists /\ total_size_tracked + file_size > MAX_TOTAL_SIZE
         THEN "Total size limit exceeded"
    ELSE "ok"

\* the check of track_directory_creation
track_directory_check(n) ==
    IF n >= MAX_DIRECTORIES THEN "Maximum directory limit exceeded" ELSE "ok"

\* len(str(n)) for n >= 0
RECURSIVE DecimalLength(_)
DecimalLength(n) == IF n < 10 THEN 1 ELSE 1 + DecimalLength(n \div 10)

\* the characters of the lines f"  + {file_path}" / f"  * {file_path}" of the paths
\* s[lo..hi], each with the "\n" that joins it to the line before
RECURSIVE PathLines(_, _, _)
PathLines(s, lo, hi) ==
    IF lo > hi THEN 0
    ELSE IF lo = hi THEN 1 + 4 + Len(s[lo])
    ELSE LET mid == (lo + hi) \div 2
         IN PathLines(s, lo, mid) + PathLines(s, mid + 1, hi)

\* len(create_detailed_commit_message()): the lines of message_parts joined by "\n".
\* The duration is the three characters of a run of under ten seconds ("0.0"); each
\* check mark is one character; the order of the path lines does not change the sum.
create_detailed_commit_message_length(t) ==
    LET files_created == Len(t.created_files)
        files_modified == Len(t.modified_files)
        directories_created == Len(t.created_directories)
        head == Len("feat(installer): install git hooks with automated file tracking")
                + 1 + 0
                + 1 + Len("Automated installation by git hooks installer:")
                + 1 + Len("- Created ") + DecimalLength(files_created) + Len(" files")
                + 1 + Len("- Modified ") + DecimalLength(files_modified) + Len(" files")
                + 1 + Len("- Created ") + DecimalLength(directories_created)
                    + Len(" directories")
                + 1 + Len("- Installation completed in ") + 3 + Len("s")
                + 1 + 0
                + 1 + Len("Files created:")
        modified == IF files_modified = 0 THEN 0
                    ELSE 1 + 0 + 1 + Len("Files modified:")
                         + PathLines(t.modified_files, 1, files_modified)
        tail == 1 + 0
                + 1 + Len("Security validations:")
                + 1 + Len("# Repository state validated before installation")
                + 1 + Len("# Only installer-created files committed")
                + 1 + Len("# No user files or secrets included")
                + 1 + Len("# Staging area validated before commit")
                + 1 + 0
                + 1 + Len("This commit was created by the git hooks installer")
                + 1 + Len("and requires manual review via pull request.")
    IN head + PathLines(t.created_files, 1, files_created) + modified + tail

InitLedger ==
    /\ \E nf \in {0, MAX_FILES - 1}, nd \in {0, MAX_DIRECTORIES - 1}, heavy \in BOOLEAN :
         /\ heavy => nf > 0
         /\ lg = [phase |-> "ledger",
                  tracker |-> [created_files |-> [i \in 1..nf |-> NumberedPath(i)],
                               modified_files |-> <<>>,
                               created_directories |-> [i \in 1..nd |-> NumberedPath(i)]],
                  total_size_tracked |-> IF heavy THEN MAX_TOTAL_SIZE - MAX_FILE_SIZE ELSE 0,
                  largest |-> IF heavy THEN MAX_FILE_SIZE ELSE 0,
                  before |-> nf,
                  passed |-> {},
                  accepted |-> {},
                  calls |-> 0,
                  last |-> "none"]
    /\ RunIdle
    /\ rc = Unused /\ lk = Unused /\ va = Unused /\ gw = Unused

\* the accounting of an accepted file: the size counts when the file exists
LedgerAccept(l, t, file_path, exists, file_size) ==
    [l EXCEPT !.tracker = t,
              !.passed = @ \cup {file_path},
              !.accepted = @ \cup {file_path},
              !.total_size_tracked = IF exists THEN @ + file_size ELSE @,
              !.largest = IF exists /\ file_size > @ THEN file_size ELSE @,
              !.calls = @ + 1,
              !.last = "ok"]

LedgerReject(l, file_path, error) ==
    [l EXCEPT !.passed = @ \cup {file_path}, !.calls = @ + 1, !.last = error]

\* track_file_creation(file_path) when the file exists or not, with the size stat()
\* reports for it
track_file_creation_call(file_path, exists, file_size) ==
    LET check == track_file_check(Len(lg.tracker.created_files),
                                  lg.total_size_tracked, exists, file_size)
    IN lg' = IF check = "ok"
             THEN LedgerAccept(lg, track_file_creation(lg.tracker, file_path),
                               file_path, exists, file_size)
             ELSE LedgerReject(lg, file_path, check)

lg_track_file_creation ==
    /\ lg.calls < MaxCalls
    /\ \E file_path \in LedgerPaths, exists \in BOOLEAN, file_size \in FileSizes :
         /\ ~exists => file_size = 0
         /\ track_file_creation_call(file_path, exists, file_size)
    /\ UNCHANGED <<runVars, rc, lk, va, gw>>

lg_track_file_modification ==
    /\ lg.calls < MaxCalls
    /\ \E file_path \in LedgerPaths, exists \in BOOLEAN, file_size \in FileSizes :
         /\ ~exists => file_size = 0
         /\ LET check == track_file_check(Len(lg.tracker.modified_files),
                                          lg.total_size_tracked, exists, file_size)
            IN lg' = IF check = "ok"
                     THEN LedgerAccept(lg, track_file_modification(lg.tracker, file_path),
                                       file_path, exists, file_size)
                     ELSE LedgerReject(lg, file_path, check)
    /\ UNCHANGED <<runVars, rc, lk, va, gw>>

lg_track_directory_creation ==
    /\ lg.calls < MaxCalls
    /\ \E dir_path \in LedgerPaths :
         LET check == track_directory_check(Len(lg.tracker.created_directories))
         IN lg' = IF check = "ok"
                  THEN [lg EXCEPT
                          !.tracker = track_directory_creation(lg.tracker, dir_path),
                          !.calls = @ + 1, !.last = "ok"]
                  ELSE [lg EXCEPT !.calls = @ + 1, !.last = check]
    /\ UNCHANGED <<runVars, rc, lk, va, gw>>

NextLedger ==
    \/ lg_track_file_creation
    \/ lg_track_file_modification
    \/ lg_track_directory_creation

SpecLedger == InitLedger /\ [][NextLedger]_vars

(***************************************************************************)
(* RepositoryValidator.validate_all on its own, over repositories with and *)
(* without a .git directory and every state of user.name and user.email:   *)
(* up to MaxCalls calls on one validator.  va.reports holds, for each call *)
(* that returned, the repository it saw, the value it returned and         *)
(* get_validation_errors() after it.                                       *)
(***************************************************************************)
ConfigValues == {"set", "empty", "unset"}

InitValidate ==
    /\ \E tree0 \in InitialTrees, dirty \in {"clean", "untracked", "staged"},
          featExists \in 0..MaxClock, name \in ConfigValues, email \in ConfigValues,
          git_dir \in BOOLEAN, t \in 1..MaxClock :
         va = [phase |-> "ready",
               repo |-> Repo0(tree0, dirty, TRUE, featExists, Main,
                              [name |-> name, email |-> email], git_dir),
               branch_pattern |-> Feat(t),
               result |-> FALSE,
               timeout |-> "none",
               validation_errors |-> <<>>,
               calls |-> 0,
               touched |-> FALSE,
               reports |-> <<>>]
    /\ RunIdle
    /\ rc = Unused /\ lk = Unused /\ lg = Unused /\ gw = Unused

\* validate_all(branch_pattern); a `git status` that times out raises
\* TimeoutExpired out of validate_all, a `git config` that times out makes
\* validate_git_config return False
va_validate_all ==
    /\ va.calls < MaxCalls
    /\ \E timeout \in {"none", "config", "status"} :
         LET errors == validate_all_errors(va.validation_errors, va.repo,
                                           va.branch_pattern, timeout)
             passed == timeout = "none" /\ validate_all(va.repo, va.branch_pattern)
         IN va' = IF timeout = "status"
                  THEN [va EXCEPT !.phase = "raised", !.timeout = timeout,
                                  !.validation_errors = errors, !.calls = @ + 1]
                  ELSE [va EXCEPT !.phase = "done", !.result = passed,
                                  !.timeout = timeout,
                                  !.validation_errors = errors, !.calls = @ + 1,
                                  !.reports = Append(@, [repo |-> va.repo,
                                                         passed |-> passed,
                                                         errors |-> errors,
                                                         timeout |-> timeout])]
    /\ UNCHANGED <<runVars, rc, lk, lg, gw>>

\* Between two calls somebody creates a file in the working tree.
va_touch ==
    /\ ~va.touched
    /\ va.repo.disk[UserFile] = Absent
    /\ va' = [va EXCEPT !.repo.disk[UserFile] = "U", !.touched = TRUE,
                        !.phase = "ready"]
    /\ UNCHANGED <<runVars, rc, lk, lg, gw>>

NextValidate == va_validate_all \/ va_touch

SpecValidate == InitValidate /\ [][NextValidate]_vars

(***************************************************************************)
(* SecureGitWrapper.run on its own: a verb (a string) and its arguments    *)
(* (each a sequence of characters).  gw.executed says that subprocess.run  *)
(* was called.                                                             *)
(***************************************************************************)
AllowedVerbs ==
    {"status", "branch", "checkout", "add", "commit", "push", "remote", "init",
     "config", "show-ref", "log", "diff", "ls-files", "reset", "clean"}

\* SecureGitWrapper.ALLOWED_COMMANDS: the arguments listed for each verb
ALLOWED_COMMANDS ==
    [c \in AllowedVerbs |->
       CASE
       c = "status" ->
         {<<"-", "-", "p", "o", "r", "c", "e", "l", "a", "i", "n">>,
          <<"-", "-", "s", "h", "o", "w", "-", "s", "t", "a", "s", "h">>}
    [] c = "branch" ->
         {<<"-", "-", "s", "h", "o", "w", "-", "c", "u", "r", "r", "e", "n", "t">>,
          <<"-", "-", "l", "i", "s", "t">>,
          <<"-", "D">>}
    [] c = "checkout" ->
         {<<"-", "b">>,
          <<"-", "-", "q", "u", "i", "e", "t">>}
    [] c = "add" ->
         {}
    [] c = "commit" ->
         {<<"-", "m">>,
          <<"-", "-", "q", "u", "i", "e", "t">>}
    [] c = "push" ->
         {<<"o", "r", "i", "g", "i", "n">>}
    [] c = "remote" ->
         {<<"g", "e", "t", "-", "u", "r", "l">>,
          <<"o", "r", "i", "g", "i", "n">>}
    [] c = "init" ->
         {<<"-", "-", "q", "u", "i", "e", "t">>}
    [] c = "config" ->
         {<<"u", "s", "e", "r", ".", "n", "a", "m", "e">>,
          <<"u", "s", "e", "r", ".", "e", "m", "a", "i", "l">>}
    [] c = "show-ref" ->
         {<<"-", "-", "v", "e", "r", "i", "f", "y">>,
          <<"-", "-", "q", "u", "i", "e", "t">>}
    [] c = "log" ->
         {<<"-", "-", "o", "n", "e", "l", "i", "n", "e">>}
    [] c = "diff" ->
         {<<"-", "-", "c", "a", "c", "h", "e", "d">>,
          <<"-", "-", "n", "a", "m", "e", "-", "o", "n", "l", "y">>}
    [] c = "ls-files" ->
         {<<"-", "-", "o", "t", "h", "e", "r", "s">>,
          <<"-", "-", "e", "x", "c", "l", "u", "d", "e", "-", "s", "t", "a", "n", "d", "a", "r", "d">>}
    [] c = "reset" ->
         {<<"-", "-", "h", "a", "r", "d">>,
          <<"H", "E", "A", "D">>,
          <<"-", "-", "q", "u", "i", "e", "t">>}
    [] c = "clean" ->
         {<<"-", "f", "d">>,
          <<"-", "-", "q", "u", "i", "e", "t">>}]

\* arg.startswith('-')
startswith_dash(arg) == arg # <<>> /\ arg[1] = "-"

\* _validate_command: the SecureGitError raised, or "ok"
validate_command(git_command, args) ==
    IF git_command \notin DOMAIN ALLOWED_COMMANDS THEN "Git command not allowed"
    ELSE IF \E i \in 1..Len(args) :
               startswith_dash(args[i]) /\ args[i] \notin ALLOWED_COMMANDS[git_command]
         THEN "Argument not allowed"
    ELSE "ok"

MaxBranchNameLength == 255

\* the characters of BRANCH_NAME_PATTERN, ^[a-zA-Z0-9/_-]+$
BranchNameChars ==
    {"a", "b", "c", "d", "e", "f", "g", "h", "i", "j", "k", "l", "m", "n", "o",
     "p", "q", "r", "s", "t", "u", "v", "w", "x", "y", "z", "A", "B", "C", "D",
     "E", "F", "G", "H", "I", "J", "K", "L", "M", "N", "O", "P", "Q", "R", "S",
     "T", "U", "V", "W", "X", "Y", "Z", "0", "1", "2", "3", "4", "5", "6", "7",
     "8", "9", "/", "_", "-"}

\* _validate_branch_name: the SecureGitError raised, or "ok"
validate_branch_name(branch_name) ==
    IF branch_name = <<>> THEN "Branch name cannot be empty"
    ELSE IF \E i \in 1..Len(branch_name) : branch_name[i] \notin BranchNameChars
         THEN "Invalid branch name format"
    ELSE IF Len(branch_name) > MaxBranchNameLength THEN "Branch name too long"
    ELSE "ok"

\* _validate_file_path: the SecureGitError raised, or "ok"
validate_file_path(file_path) ==
    IF <<".", ".">> \in SeqToSet(PathParts(file_path)) THEN "Path traversal detected"
    ELSE IF file_path # <<>> /\ file_path[1] = "/" /\ ~Under(RepoRoot, PurePath(file_path))
         THEN "Absolute path outside repository"
    ELSE "ok"

\* a name of 256 characters
LongName == [i \in 1..(MaxBranchNameLength + 1) |-> "a"]

\* --porcelain, -D, --force, -fd, HEAD, origin, main, "bad name", ../o and LongName
RunArgs ==
    {<<"-", "-", "p", "o", "r", "c", "e", "l", "a", "i", "n">>,
     <<"-", "D">>,
     <<"-", "-", "f", "o", "r", "c", "e">>,
     <<"-", "f", "d">>,
     <<"H", "E", "A", "D">>,
     <<"o", "r", "i", "g", "i", "n">>,
     <<"m", "a", "i", "n">>,
     <<"b", "a", "d", " ", "n", "a", "m", "e">>,
     <<".", ".", "/", "o">>,
     LongName}

RunVerbs == AllowedVerbs \cup {"rm", "gc"}

RECURSIVE ArgLists(_)
ArgLists(n) ==
    IF n = 0 THEN {<<>>}
    ELSE ArgLists(n - 1) \cup {Append(l, a) : l \in ArgLists(n - 1), a \in RunArgs}

InitRunner ==
    /\ \E git_command \in RunVerbs, args \in ArgLists(MaxArgs) :
         gw = [phase |-> "ready", call |-> "run", git_command |-> git_command,
               args |-> args, raised |-> "none", executed |-> FALSE]
    /\ RunIdle
    /\ rc = Unused /\ lk = Unused /\ lg = Unused /\ va = Unused

\* run(): _validate_command, then subprocess.run; a timeout becomes SecureGitError,
\* a non-zero exit status CalledProcessError
gw_run ==
    /\ gw.phase = "ready" /\ gw.call = "run"
    /\ \E o \in {"ok", "timeout", "failed"} :
         gw' = IF validate_command(gw.git_command, gw.args) # "ok"
               THEN [gw EXCEPT !.phase = "done", !.raised = "SecureGitError"]
               ELSE [gw EXCEPT !.phase = "done", !.executed = TRUE,
                               !.raised = CASE o = "ok" -> "none"
                                            [] o = "timeout" -> "SecureGitError"
                                            [] o = "failed" -> "CalledProcessError"]
    /\ UNCHANGED <<runVars, rc, lk, lg, va>>

NextRunner == gw_run

SpecRunner == InitRunner /\ [][NextRunner]_vars

(***************************************************************************)
(* SecureGitWrapper.add_file on its own: one path whose content in HEAD,   *)
(* in the index and in the working tree is any of absent, "U" and "I".     *)
(***************************************************************************)
\* w, ./w, d//g/a and ../w
AddPaths ==
    {WrapperSh, <<".", "/", "w">>, <<"d", "/", "/", "g", "/", "a">>,
     <<".", ".", "/", "w">>}
Contents == {Absent, "U", "I"}

\* `git add <p>` fails (pathspec did not match any files) when p is neither in the
\* working tree nor in the index
CanAdd(r, p) == r.disk[p] # Absent \/ r.index[p] # Absent

InitAddFile ==
    /\ \E file_path \in AddPaths, h \in Contents, i \in Contents, d \in Contents :
         LET p == IF validate_file_path(file_path) = "ok"
                  THEN TrackNormalize(file_path) ELSE WrapperSh
             base == Repo0(FreshTree, "clean", TRUE, 0, Main, Configured, TRUE)
             disk0 == [base.disk EXCEPT ![p] = d]
             r == [base EXCEPT !.trees["c0"][p] = h, !.index[p] = i,
                               !.disk = disk0, !.dirs = DirsOf(disk0)]
         IN gw = [phase |-> "ready", call |-> "add_file", file_path |-> file_path,
                  repo0 |-> r, repo |-> r, raised |-> "none", executed |-> FALSE]
    /\ RunIdle
    /\ rc = Unused /\ lk = Unused /\ lg = Unused /\ va = Unused

\* add_file(file_path): _validate_file_path, git status, git add, and the check of the
\* staged names when the path had changes
gw_add_file ==
    /\ gw.phase = "ready" /\ gw.call = "add_file"
    /\ LET git_path == TrackNormalize(gw.file_path)
       IN gw' = IF validate_file_path(gw.file_path) # "ok"
                THEN [gw EXCEPT !.phase = "done", !.raised = "SecureGitError"]
                ELSE IF ~CanAdd(gw.repo, git_path)
                THEN [gw EXCEPT !.phase = "done", !.executed = TRUE,
                                !.raised = "CalledProcessError"]
                ELSE [gw EXCEPT !.phase = "done", !.executed = TRUE,
                                !.repo = add_file(gw.repo, git_path),
                                !.raised = IF add_file_raises(gw.repo, git_path)
                                           THEN "SecureGitError" ELSE "none"]
    /\ UNCHANGED <<runVars, rc, lk, lg, va>>

NextAddFile == gw_add_file

SpecAddFile == InitAddFile /\ [][NextAddFile]_vars

(***************************************************************************)
(* cleanup_on_failure() on its own: called at each point where install()   *)
(* calls it, with every combination of failing actions.  gw.before is the  *)
(* repository at the call, gw.repo0 the repository before the run, and the *)
(* flags say which actions failed.                                         *)
(***************************************************************************)
\* install(): installation_steps after "Git Hooks", with the directories each step
\* creates when missing and the files it copies
InstallationSteps ==
    << [ds |-> <<ScriptsDir>>, fs |-> <<ScriptFile>>],
       [ds |-> <<DocsDir, DocsGithooksDir>>, fs |-> <<DocFile>>],
       [ds |-> <<SetupDir>>, fs |-> <<SetupFile>>],
       [ds |-> <<>>, fs |-> <<WrapperSh, WrapperPs1>>],
       [ds |-> <<>>, fs |-> <<VersionFile>>] >>

\* the first k-1 steps done, step k ended with outcome o
RECURSIVE RunSteps(_, _, _, _)
RunSteps(s, j, k, o) ==
    IF j > k THEN s
    ELSE LET step == InstallationSteps[j]
             oj == IF j = k THEN o ELSE [n |-> Len(step.fs), kind |-> "ok"]
         IN RunSteps(StepResult(s.repo, s.tracker, step.ds, step.fs, oj), j + 1, k, o)

\* The states in which install() calls cleanup_on_failure: pre-flight raised (k = 0);
\* step k returned False; or every step succeeded, the tracked files were staged and
\* a later part of commit_tracked_changes failed (k = 6).
CleanupCalls ==
    LET n == Len(InstallationSteps)
    IN {[k |-> 0, o |-> [n |-> 0, kind |-> "start"]]}
       \cup {[k |-> k, o |-> o] :
               k \in 1..n, o \in {x \in StepOutcomes(<<WrapperSh, WrapperPs1>>) :
                                     x.kind # "ok"}}
       \cup {[k |-> n + 1, o |-> [n |-> 0, kind |-> "ok"]]}

InitCleanup ==
    /\ \E tree0 \in InitialTrees, head0 \in {Dev, Detached}, detect_ok \in BOOLEAN,
          c \in CleanupCalls :
         LET n == Len(InstallationSteps)
             r0 == Repo0(tree0, "clean", FALSE, 0, head0, Configured, TRUE)
             branched == [create_branch(r0, Feat(1)) EXCEPT !.disk[HookFile] = "I"]
             s0 == [repo |-> branched, tracker |-> NewTracker]
             s == IF c.k = 0 THEN [repo |-> r0, tracker |-> NewTracker]
                  ELSE IF c.k = n + 1
                  THEN LET e == RunSteps(s0, 1, n, [n |-> 1, kind |-> "ok"])
                       IN [e EXCEPT !.repo = safe_add_tracked_files(e.repo, e.tracker, "ok")]
                  ELSE RunSteps(s0, 1, c.k, c.o)
         IN /\ c.k \in 1..n => c.o \in StepOutcomes(InstallationSteps[c.k].fs)
            /\ gw = [phase |-> "ready", call |-> "cleanup_on_failure",
                     repo0 |-> r0, before |-> s.repo, repo |-> s.repo,
                     tracker |-> s.tracker,
                     inst |-> IF c.k = 0
                              THEN [branch_name |-> NoBranch, original_branch |-> NoBranch]
                              ELSE [branch_name |-> Feat(1),
                                    original_branch |-> get_current_branch(r0, detect_ok)],
                     reset_ok |-> TRUE, unlink_fails |-> {}, checkout_ok |-> TRUE,
                     delete_ok |-> TRUE, raised |-> FALSE, result |-> "none"]
    /\ RunIdle
    /\ rc = Unused /\ lk = Unused /\ lg = Unused /\ va = Unused

\* install(): `self.cleanup_on_failure(); return False`.  Every exception inside
\* cleanup_on_failure is caught by one of its handlers, so none reaches install().
gw_cleanup_on_failure ==
    /\ gw.phase = "ready" /\ gw.call = "cleanup_on_failure"
    /\ \E reset_ok \in BOOLEAN, checkout_ok \in BOOLEAN, delete_ok \in BOOLEAN,
          unlink_fails \in {F \in SUBSET get_all_tracked_files(gw.tracker) :
                              Cardinality(F) <= MaxUnlinkFailures} :
         gw' = [gw EXCEPT
                  !.phase = "done",
                  !.repo = cleanup_on_failure(gw.repo, gw.tracker, gw.inst, reset_ok,
                                              unlink_fails, checkout_ok, delete_ok),
                  !.reset_ok = reset_ok, !.unlink_fails = unlink_fails,
                  !.checkout_ok = checkout_ok, !.delete_ok = delete_ok,
                  !.raised = FALSE, !.result = "failure"]
    /\ UNCHANGED <<runVars, rc, lk, lg, va>>

NextCleanup == gw_cleanup_on_failure

SpecCleanup == InitCleanup /\ [][NextCleanup]_vars

(***************************************************************************)
(* FileTracker.safe_add_tracked_files on its own: a ledger of up to three  *)
(* files, each of them on disk or vanished, with or without another file   *)
(* staged, with and without skip_validation.                               *)
(***************************************************************************)
StageFiles == {ScriptFile, DocFile, WrapperSh}

\* A safe_add_tracked_files that returns False when a tracked file is missing.
safe_add_returns_unless_missing(r, t, o, skip_validation) ==
    \/ get_all_tracked_files(t) = {}
    \/ /\ o = "ok"
       /\ \A p \in get_all_tracked_files(t) : r.disk[p] # Absent
\* the value safe_add_tracked_files returns: True without tracked files; False when
\* the lock is held or a git command fails; else True with skip_validation, and the
\* value of validate_staging_area() without it
safe_add_returns(r, t, o, skip_validation) ==
    \/ get_all_tracked_files(t) = {}
    \/ /\ o = "ok"
       /\ LET r1 == safe_add_tracked_files(r, t, o)
          IN skip_validation
             \/ validate_staging_area(StagedPaths(r1), get_all_tracked_files(t),
                                      {p \in GitPaths : HasChanges(r1, p)})

InitStage ==
    /\ \E tree0 \in {FreshTree, PriorTree}, dirty \in {"clean", "staged"},
          tracked \in SUBSET StageFiles, skip_validation \in BOOLEAN :
         \E present \in SUBSET tracked :
           LET base == Repo0(tree0, dirty, TRUE, 0, Main, Configured, TRUE)
               disk0 == [p \in AllFiles |->
                           IF p \in tracked
                           THEN (IF p \in present THEN "I" ELSE Absent)
                           ELSE base.disk[p]]
               r == [base EXCEPT !.disk = disk0, !.dirs = DirsOf(disk0)]
           IN gw = [phase |-> "ready", call |-> "safe_add_tracked_files",
                    before |-> r, repo |-> r,
                    tracker |-> TrackAll(NewTracker, SortedSeq(tracked)),
                    skip_validation |-> skip_validation,
                    outcome |-> "none", result |-> FALSE]
    /\ RunIdle
    /\ rc = Unused /\ lk = Unused /\ lg = Unused /\ va = Unused

gw_safe_add_tracked_files ==
    /\ gw.phase = "ready" /\ gw.call = "safe_add_tracked_files"
    /\ \E o \in {"ok", "locked", "reset", "add"} :
         gw' = [gw EXCEPT
                  !.phase = "done",
                  !.repo = safe_add_tracked_files(gw.repo, gw.tracker, o),
                  !.outcome = o,
                  !.result = safe_add_returns(gw.repo, gw.tracker, o, gw.skip_validation)]
    /\ UNCHANGED <<runVars, rc, lk, lg, va>>

NextStage == gw_safe_add_tracked_files

SpecStage == InitStage /\ [][NextStage]_vars

(***************************************************************************)
(* Properties.                                                             *)
(***************************************************************************)
TrackedFiles == get_all_tracked_files(tracker)
Finished == inst.pc = "done"

\* C1: every path of the commit a run creates is a file tracked by the FileTracker of
\* that run, even when another actor stages files during the run.  (Fails: a file
\* staged between validate_staging_area and git commit is committed.)
C1_CommitHoldsOnlyTrackedFiles ==
    hist.committed => hist.commitPaths \subseteq TrackedFiles

C3_FailureLeavesRepositoryAsFound ==
    (Finished /\ inst.result = "failure" /\ hist.preflight = "passed") =>
        /\ \A p \in AllFiles \ {UserFile} : repo.disk[p] = hist.repo0.disk[p]
        /\ repo.dirs = hist.repo0.dirs

\* C4: when cleanup_on_failure has returned after a failure that followed the
\* creation of the feature branch, no tracked file is on disk, the feature branch is
\* gone and the checked-out branch is the one of before the run.  (Fails: e.g.
\* get_current_branch() fell back to "main".)
C4_RollbackComplete ==
    (Finished /\ hist.rolledBack /\ hist.branched) =>
        /\ \A p \in TrackedFiles : repo.disk[p] = Absent
        /\ repo.tip[inst.branch_name] = NoCommit
        /\ repo.head = hist.repo0.head

\* C5: in every run that creates the commit, the checked-out branch when install()
\* returns is the branch of when it was called.  (Fails: "main" fallback, a failed or
\* skipped final checkout.)
C5_OriginalBranchRestored ==
    (Finished /\ hist.committed) => repo.head = hist.repo0.head

\* C6: when pre-flight validation does not pass, install() returns failure without
\* running rollback and without any change to the repository: nothing written, no
\* branch created or checked out, the staging area unchanged.  (Fails: a validation
\* command that times out raises through validate_all into install()'s handler,
\* which runs cleanup_on_failure and its `git reset HEAD`.)
C6_NoPassNoRollbackNoChange ==
    (hist.preflight \in {"failed", "raised"} /\ Finished /\ ~hist.interfered) =>
        /\ inst.result = "failure"
        /\ ~hist.rolledBack
        /\ hist.written = {}
        /\ repo = hist.repo0

\* C7: a commit is created only while the feature branch this run created is checked
\* out, and the original branch points to the same commit throughout.
C7_CommitOnlyOnFeatureBranch ==
    /\ hist.committed =>
          /\ hist.branched
          /\ hist.commitHead = inst.branch_name
          /\ hist.repo0.tip[inst.branch_name] = NoCommit
    /\ hist.repo0.head # Detached =>
          repo.tip[hist.repo0.head] = hist.repo0.tip[hist.repo0.head]

\* C7's case: the run has committed and returned.
C7_Witness == Finished /\ hist.committed /\ hist.repo0.head # Detached

\* C9: a run that created the feature branch ends either RESTORED (commit created,
\* original branch checked out) or ROLLED_BACK, and in no other state.  (Fails with
\* C5: the commit exists and the feature branch is still checked out.)
RESTORED == hist.committed /\ ~hist.rolledBack /\ repo.head = hist.repo0.head
ROLLED_BACK == hist.rolledBack /\ ~hist.committed
C9_EndsRestoredOrRolledBack ==
    (Finished /\ hist.branched) => (RESTORED \/ ROLLED_BACK)

\* C10 as stated: on a clean repository without interference, with every step
\* succeeding, at the moment of commit the staged paths are the tracked files.
\* (Fails: a tracked file already committed with the same content is not staged.)
AtCommit == inst.pc = "commit" /\ ~hist.interfered
C8_LockMutualExclusion == Cardinality(InLockedSection) <= 1

\* C11: after any sequence of track_* calls the ledger holds at most 1000 tracked
\* files in total, at most 100 tracked directories, no file above 10 MB and at most
\* 100 MB in total.  (Fails: the file limit is applied to created_files and to
\* modified_files separately.)
C11_LedgerWithinLimits ==
    /\ Cardinality(get_all_tracked_files(lg.tracker)) <= MAX_FILES
    /\ Len(lg.tracker.created_directories) <= MAX_DIRECTORIES
    /\ lg.largest <= MAX_FILE_SIZE
    /\ lg.total_size_tracked <= MAX_TOTAL_SIZE

\* C12: a path that leaves the repository root is never added to the ledger: tracking
\* it raises.  (Fails: the track_* methods only normalise the path.)
C12_NoTrackedPathLeavesRoot ==
    \A f \in get_all_tracked_files(lg.tracker) \cup SeqToSet(lg.tracker.created_directories) :
        ~LeavesRoot(f)

\* C13: a run whose feature-branch name already names a branch before the run fails
\* in pre-flight, before any file is written and any branch created or checked out.
\* (Fails: the name is computed again, from a later clock reading, in
\* create_safe_feature_branch; the run then fails there, not in pre-flight.)
C13_ExistingBranchFailsPreflight ==
    (Truthy(inst.branch_name) /\ hist.repo0.tip[inst.branch_name] # NoCommit) =>
        /\ hist.preflight = "failed"
        /\ hist.written = {}
        /\ repo = hist.repo0

\* C14: validate_all returns True iff the target has a .git directory, the working
\* tree is clean, user.name and user.email are both configured and non-empty, and no
\* branch has the candidate name.  (Fails: a name or email set to the empty string
\* passes validate_git_config.)
C14_ValidateAllIffFourChecks ==
    (va.phase = "done" /\ va.timeout = "none") =>
        (va.result <=>
            /\ va.repo.git_dir
            /\ StatusClean(va.repo)
            /\ va.repo.config.name = "set" /\ va.repo.config.email = "set"
            /\ va.repo.tip[va.branch_pattern] = NoCommit)

\* a version-control command of the run has exceeded its timeout: one of validate_all's
\* (hist.preflight = "raised") or one of push_feature_branch's
TimedOut == hist.preflight = "raised" \/ hist.push = "timeout"

\* C15: once a version-control command has timed out, the run goes to no later phase
\* and install() ends in failure, with rollback if the feature branch was created.
\* (Fails: push_feature_branch catches the timeout and the run goes on to success.)
C15_TimeoutIsFatal ==
    TimedOut =>
        /\ inst.pc \in {"cleanup", "done"}
        /\ Finished => (inst.result = "failure" /\ (hist.branched => hist.rolledBack))

\* C16: a commit message of more than 5000 characters is refused before the commit
\* command runs: no commit is created, and the run goes to rollback and ends in
\* failure.
C16_LongMessageIsFatal ==
    hist.longMessage =>
        /\ ~hist.committed
        /\ \A b \in BranchNames : repo.tip[b] # "c1"
        /\ inst.pc \in {"cleanup", "done"}
        /\ Finished => (inst.result = "failure" /\ hist.rolledBack)

\* C16's case: the message was too long and install() has returned.
C16_Witness == hist.longMessage /\ Finished /\ hist.validated

\* C17: when the commit was created and the push failed or was skipped, install()
\* returns success without rollback, the commit and the feature branch are kept, and
\* the original branch is checked out.  (Fails in its last part, as C5 does.)
C17_PushFailureKeepsVerdict ==
    (Finished /\ hist.committed /\ hist.push \in {"failed", "timeout", "no_remote"}) =>
        /\ inst.result = "success"
        /\ ~hist.rolledBack
        /\ repo.tip[inst.branch_name] = "c1"
        /\ repo.head = hist.repo0.head

\* C18: run() raises SecureGitError and executes nothing for every verb outside
\* status, branch, checkout, add, commit, push, remote, config, show-ref, log, diff,
\* ls-files, reset.  (Fails: ALLOWED_COMMANDS also lists init and clean.)
C18_OnlyListedVerbsRun ==
    LET listed == {"status", "branch", "checkout", "add", "commit", "push", "remote",
                   "config", "show-ref", "log", "diff", "ls-files", "reset"}
    IN (gw.phase = "done" /\ gw.git_command \notin listed) =>
           (gw.raised = "SecureGitError" /\ ~gw.executed)

\* C19: for an allowed verb, run() raises SecureGitError and executes nothing when a
\* '-'-prefixed argument is not among the verb's flags, when a branch-name argument
\* fails the name pattern or is longer than 255, or when a file-path argument leaves
\* the repository root.  (Fails: run() checks the flags only.)
C19_RunRejectsBadArguments ==
    LET c == gw.git_command
        plain == {gw.args[i] : i \in {j \in 1..Len(gw.args) : ~startswith_dash(gw.args[j])}}
        bad_flag == validate_command(c, gw.args) = "Argument not allowed"
        bad_branch == /\ c \in {"checkout", "branch", "push"}
                      /\ \E a \in plain \ ALLOWED_COMMANDS[c] : validate_branch_name(a) # "ok"
        bad_path == c = "add" /\ \E a \in plain : validate_file_path(a) # "ok"
    IN (gw.phase = "done" /\ c \in AllowedVerbs /\ (bad_flag \/ bad_branch \/ bad_path)) =>
           (gw.raised = "SecureGitError" /\ ~gw.executed)

C21_MissingFileRaisesSecureGitError ==
    (/\ gw.phase = "done"
     /\ validate_file_path(gw.file_path) = "ok"
     /\ gw.repo0.disk[TrackNormalize(gw.file_path)] = Absent)
       => gw.raised = "SecureGitError"

\* C22: after the same path has been tracked any number of times, the manifest counts
\* it once (files_created and files_modified are the numbers of distinct created and
\* modified paths) and its path lists hold it once.  (Stated for ledgers of at most
\* MaxCalls entries, the ones the calls of the model built from nothing.)
C22_ManifestCountsDistinctPaths ==
    LET t == lg.tracker
        m == generate_commit_manifest(t)
        once(s) == \A i \in 1..Len(s), j \in 1..Len(s) : s[i] = s[j] => i = j
    IN (Len(t.created_files) <= MaxCalls /\ Len(t.created_directories) <= MaxCalls) =>
          /\ m.files_created = Cardinality(SeqToSet(t.created_files))
          /\ m.files_modified = Cardinality(SeqToSet(t.modified_files))
          /\ once(m.created_files)
          /\ once(m.modified_files)

\* C23 as stated: after any sequence of track_file_creation and
\* track_file_modification calls, get_all_tracked_files returns exactly the set of the
\* paths passed to either operation.
C23_TrackedFilesArePassedPaths ==
    get_all_tracked_files(lg.tracker)
      = {NumberedPath(i) : i \in 1..lg.before} \cup lg.passed

\* C23, amended: get_all_tracked_files returns exactly the set of the normalised forms
\* (str(Path(p)) with backslashes replaced) of the paths passed to the calls of either
\* operation that returned, each once, however many times and under whichever of the
\* two operations a path was tracked.
C23_TrackedFilesAreNormalisedAcceptedPaths ==
    get_all_tracked_files(lg.tracker)
      = {NumberedPath(i) : i \in 1..lg.before} \cup {TrackNormalize(p) : p \in lg.accepted}

\* C23's case: one file tracked as created under the name ./a and as modified under
\* the name a.
C23_Witness ==
    /\ lg.accepted = {<<"a">>, <<".", "/", "a">>}
    /\ lg.tracker.created_files = <<<<"a">>>>
    /\ lg.tracker.modified_files = <<<<"a">>>>
    /\ get_all_tracked_files(lg.tracker) = {<<"a">>}

\* C24: two calls of validate_all on one validator that saw the same repository, and
\* whose git commands completed, returned the same value and left the same list of
\* failure strings: the errors of a call before are not in the list of a later one.
C24_ValidateAllIdempotent ==
    \A i \in 1..Len(va.reports), j \in 1..Len(va.reports) :
        (/\ va.reports[i].repo = va.reports[j].repo
         /\ va.reports[i].timeout = "none"
         /\ va.reports[j].timeout = "none")
           => /\ va.reports[i].passed = va.reports[j].passed
              /\ va.reports[i].errors = va.reports[j].errors

\* C24's case: validate_all has failed twice on the same repository.
C24_Witness ==
    /\ Len(va.reports) >= 2
    /\ va.reports[1].repo = va.reports[2].repo
    /\ va.reports[1].timeout = "none" /\ va.reports[2].timeout = "none"
    /\ ~va.reports[2].passed
    /\ va.reports[2].errors # <<>>

\* C25: the commit command is invoked only after validate_staging_area has returned
\* True in this run, and the installer stages nothing between that return and the
\* commit; when validate_staging_area does not return True, no commit is invoked and
\* the run goes to cleanup_on_failure.
C25_CommitOnlyAfterReconcile ==
    /\ []((inst.pc \in {"commit", "push", "restore"} \/ hist.committed) => hist.validated)
    /\ [][(inst.pc = "validate" /\ inst'.pc # "validate" /\ ~hist'.validated)
             => inst'.pc = "cleanup"]_vars
    /\ [][inst.pc = "commit"
             => \A p \in GitPaths \ {UserFile} : repo'.index[p] = repo.index[p]]_vars

\* C25's case: validate_staging_area returned True and the commit was created.
C25_Witness == inst.pc = "push" /\ hist.validated /\ hist.committed

C28_LockedStageFailsAtOnce ==
    /\ [][(inst.pc = "stage" /\ hist'.stage = "locked")
             => (repo' = repo /\ inst'.pc = "cleanup")]_vars
    /\ [](hist.stage = "locked" =>
             /\ inst.pc \in {"cleanup", "done"}
             /\ ~hist.committed
             /\ Finished => inst.result = "failure")

\* C28's case: the lock was held and install() has returned.
C28_Witness == hist.stage = "locked" /\ Finished /\ inst.result = "failure"

\* C29: the install steps run in the order Git Hooks, Scripts, Documentation,
\* Developer Setup, Shell Wrappers, Version Info, each at most once; when a step
\* returns False no later step, no staging and no commit is executed and
\* cleanup_on_failure starts.
C29_StepsInOrderFailureStopsTheRun ==
    /\ [][LET after == [hooks |-> "scripts", scripts |-> "docs", docs |-> "setup",
                        setup |-> "wrappers", wrappers |-> "version",
                        version |-> "stage"]
          IN (inst.pc \in DOMAIN after /\ inst'.pc # inst.pc) =>
                \/ hist'.failedStep = "none" /\ inst'.pc = after[inst.pc]
                \/ hist'.failedStep = inst.pc /\ inst'.pc = "cleanup"]_vars
    /\ [](hist.failedStep # "none" =>
             /\ inst.pc \in {"cleanup", "done"}
             /\ hist.stage = "none" /\ ~hist.validated /\ ~hist.committed
             /\ Finished => (hist.rolledBack /\ inst.result = "failure"))
    /\ [](inst.pc \in {"hooks", "scripts", "docs", "setup", "wrappers", "version",
                       "stage"} => hist.failedStep = "none")

\* C29's case: the Documentation step returned False and install() has returned.
C29_Witness == hist.failedStep = "docs" /\ Finished

\* C30: a run reaches the final validate_staging_area through, in this order, the
\* staging of the tracked files, the writing of the manifest, its tracking and its
\* staging; at the final validation the manifest is in the ledger and staged, and no
\* commit is created without the manifest.
C30_ManifestTrackedAndStagedBeforeReconcile ==
    /\ [](inst.pc \in {"stage", "manifest"} =>
             (ManifestFile \notin get_all_tracked_files(tracker)
              /\ ManifestFile \notin hist.written))
    /\ [](inst.pc = "manifest" => hist.stage = "ok")
    /\ [][(inst.pc = "manifest" /\ inst'.pc # inst.pc) =>
             inst'.pc \in {"validate", "cleanup"}]_vars
    /\ [](inst.pc = "validate" =>
             /\ hist.stage = "ok"
             /\ ManifestFile \in hist.written
             /\ ManifestFile \in get_all_tracked_files(tracker)
             /\ ManifestFile \in StagedPaths(repo))
    /\ [](hist.committed => ManifestFile \in hist.commitPaths)

\* C30's case: the run is at the final validation, the manifest tracked and staged.
C30_Witness ==
    /\ inst.pc = "validate"
    /\ ManifestFile \in get_all_tracked_files(tracker)
    /\ ManifestFile \in StagedPaths(repo)

C34_VanishedFileIsSkipped ==
    (gw.phase = "done" /\ gw.outcome = "ok") =>
        /\ gw.result
        /\ \A p \in get_all_tracked_files(gw.tracker) :
              gw.repo.index[p] = IF gw.before.disk[p] = Absent
                                 THEN HeadTree(gw.repo)[p] ELSE gw.before.disk[p]

\* C34's case: one tracked file had vanished, another was on disk and is staged.
C34_Witness ==
    /\ gw.phase = "done" /\ gw.outcome = "ok" /\ gw.result
    /\ \E p \in get_all_tracked_files(gw.tracker) : gw.before.disk[p] = Absent
    /\ \E p \in get_all_tracked_files(gw.tracker) :
          gw.before.disk[p] # Absent /\ p \in StagedPaths(gw.repo)

\* C35: validate_staging_area returns False, for every ledger, whenever the command
\* that reads the staged paths fails; it never returns True without having read the
\* staging area.  (Fails: when the command times out the method raises
\* subprocess.TimeoutExpired and returns nothing.)
C35_ReconcileFalseWhenReadFails ==
    (rc.phase # "ready" /\ rc.diff # "ok") => (rc.phase = "done" /\ ~rc.result)

\* C36: the feature-branch name that pre-flight checks for collisions is the name
\* that create_safe_feature_branch creates, so a branch is only created under a name
\* that pre-flight found unused.  (Fails: each of the two builds the name from its
\* own reading of the clock.)
C36_CreatedNameIsTheCheckedName ==
    hist.branched => inst.branch_name = hist.potential_branch

\* C37: the manifest file in a commit describes that commit: its created and modified
\* path lists together are exactly the paths of the commit, the manifest's own path
\* included, and its counts add up to the number of those paths.  (Fails: the
\* manifest is generated and written before its own path is tracked.)
C37_ManifestDescribesItsCommit ==
    hist.committed =>
        LET listed == SeqToSet(hist.manifest.created_files)
                        \cup SeqToSet(hist.manifest.modified_files)
        IN /\ ManifestFile \in listed
           /\ listed = hist.commitPaths
           /\ hist.manifest.files_created + hist.manifest.files_modified
                = Cardinality(hist.commitPaths)

\* C38: after validate_all has returned, passed is true exactly when the list of
\* recorded validation failures is empty.  (Fails: a user.name or user.email set to
\* the empty string is recorded as a failure by a validate_git_config that returns
\* True.)
C38_PassedIffNoFailureRecorded ==
    \A i \in 1..Len(va.reports) :
        va.reports[i].passed <=> va.reports[i].errors = <<>>

\* C39: every ledger the resource ceilings accept can be committed: the commit
\* message generated for it has at most 5000 characters, so SecureGitWrapper.commit
\* does not refuse it.  (Fails: the message has one line for each tracked path, and
\* the ceilings allow 1000 paths of any length.)
C39_AcceptedLedgerCanBeCommitted ==
    ~commit_refuses(create_detailed_commit_message_length(lg.tracker))

\* C40: rollback deletes no branch other than the feature branch this run created:
\* every branch that existed before the run, the original branch among them, still
\* exists after any failed run, a run in which creating the feature branch failed
\* included.
C40_OnlyOwnBranchDeleted ==
    (Finished /\ inst.result = "failure") =>
        \A b \in BranchNames : hist.repo0.tip[b] # NoCommit => repo.tip[b] # NoCommit

\* C40's case: the rollback has deleted the feature branch of this run, and another
\* feature branch that existed before the run is still there.
C40_Witness ==
    /\ Finished /\ hist.rolledBack /\ hist.branched
    /\ inst.branch_name = Feat(1) /\ repo.tip[Feat(1)] = NoCommit
    /\ hist.repo0.tip[Feat(2)] # NoCommit /\ repo.tip[Feat(2)] # NoCommit
====
